---- MODULE Spec2Model ----
(***************************************************************************)
(* Model of pymanip.asyncsession.AsyncSession: the sqlite-backed store     *)
(* (tables log_names, log, parameters), and the cooperative runtime of     *)
(* run() with its running flag, wrapped tasks, renderer and web server.    *)
(***************************************************************************)
EXTENDS Integers, Sequences, FiniteSets, TLC

\* ------------------------------------------------------------------------
\* Bounds of the model
\* ------------------------------------------------------------------------
MaxLog == 3
MaxEntries == 2
MaxParams == 3
MaxRuns == 2
MaxTasks == 2
MaxTicks == 1
MaxDuration == 11
MaxCapacity == 2
MaxCharts == 2
MaxOpens == 2

\* ------------------------------------------------------------------------
\* Values, names and timestamps
\* ------------------------------------------------------------------------
\* A name is a sequence of characters. Quote is the SQL string delimiter.
Quote == "'"

NameA == <<"a">>
NameB == <<"b">>
NameQ == <<Quote>>
NameQQ == <<Quote, Quote>>

\* Keys accepted by add_entry(**kwargs) / save_parameter(**kwargs): any str.
\* Names without a quote character:
PlainNames == {NameA, NameB}

\* Names logged under the wall clock:
Names == {NameA, NameQ, NameQQ}

\* Keys of save_parameter:
ParamKeys == Names \cup PlainNames

\* Values sqlite3 can bind to a "?" placeholder (int, float).
Values == {1, 2}

\* A value of a type sqlite3 cannot bind (a list, a numpy integer, ...):
\* cursor.execute raises on it.
Unbindable == 0

Bindable(val) == val \in Values

\* Readings of datetime.now().timestamp().
Times == {1, 2}

\* Python None (fetchone() on an empty result, a missing parameter).
None == <<>>

\* The relations __init__ creates, and a relation it does not know.
Relations == {"log_names", "log", "parameters"}

\* The file at session_name + '.db' as sqlite sees it: a database with the
\* relations of sqlite_master, or not a database.  sqlite3.connect creates
\* a missing file as a database of no relation.
Database(relations) == [db |-> TRUE, relations |-> relations]

NotADatabase == [db |-> FALSE, relations |-> {}]

\* The files a session is opened on: none or an empty one, a store of this
\* schema, the database of another program, a file of another kind.
FileChoices ==
    {Database({}), Database(Relations), Database({"other"}), NotADatabase}

\* Store: the three tables (rows in rowid order) and the wall clock.
\* History: appended = entries of the add_entry calls that returned, in call
\* order; call = the latest add_entry call (its entries when it returned,
\* the number of rows it had inserted when it raised); last_set = per key,
\* the value of the latest save_parameter call that returned.
VARIABLES log_names, log, parameters, now, appended, call, last_set

\* Runtime: running = the attribute self.running ("unset" before the first
\* run()); runPc = where run() is; runs = number of run() calls; tasks = the
\* coroutines scheduled on the event loop (create_server included);
\* serverBound = a listener on port 6913 is open.
\* History: asked = ask_exit has been called; callArgs = the arguments of
\* the latest run() call.
VARIABLES running, runPc, runs, tasks, serverBound, asked, callArgs

\* Sleepers: sleepers[k] = the state of the k-th call of sleep() (where it
\* is, the time left on its timer, the part of duration still to elapse);
\* sinceFalse = the time elapsed since running became false.
VARIABLES sleepers, sinceFalse

\* Renderer: view = the local state of one plot() coroutine (checkpoints,
\* anchors, the data of each line, the axis limits).
\* History: consumed = per name, the rows the renderer has drawn from.
VARIABLES view, consumed

\* Charts: charts = the plot() calls made so far, each with its varnames and
\* the two parameter keys it computed.
VARIABLES charts

\* Backing file: schema = the relations listed in sqlite_master, or
\* NotADatabase; conn = "open" while a session object holds a connection.
\* History: opens = the number of times the file was opened.
VARIABLES schema, conn, opens

logVars == <<log_names, log, now, appended, call>>

paramVars == <<parameters, last_set>>

runVars == <<running, runPc, runs, tasks, serverBound, asked, callArgs>>

sleepVars == <<sleepers, sinceFalse>>

\* The state outside the store and the tasks of run().
viewVars == <<view, consumed>>

storeVars == <<schema, conn, opens>>

extVars == <<sleepVars, viewVars, charts, storeVars>>

vars == <<log_names, log, parameters, now, appended, call, last_set,
          running, runPc, runs, tasks, serverBound, asked, callArgs,
          sleepers, sinceFalse, view, consumed, charts, schema, conn,
          opens>>

\* ------------------------------------------------------------------------
\* plot(): the watched names and the parameter keys derived from them
\* ------------------------------------------------------------------------
\* The renderers: plot(('a',)) and plot(("'",)).
PlotShapes == {"plot", "plotq"}

varnames_of(shape) == IF shape = "plot" THEN <<NameA>> ELSE <<NameQ>>

\* '_'.join(varnames)
RECURSIVE Join(_)
Join(varnames) ==
    IF varnames = <<>> THEN <<>>
    ELSE IF Len(varnames) = 1 THEN varnames[1]
    ELSE varnames[1] \o <<"_">> \o Join(Tail(varnames))

param_key_window(varnames) == <<"_window_">> \o Join(varnames)

param_key_figsize(varnames) == <<"_figsize_">> \o Join(varnames)

\* A name that contains the separator of join.
NameAB == <<"a", "_", "b">>

\* The varnames of the charts compared with one another.
ChartVarnames ==
    {<<NameA>>, <<NameB>>, <<NameA, NameB>>, <<NameB, NameA>>, <<NameAB>>}

\* Every name and key that is formatted into a query.
QueryKeys ==
    Names \cup PlainNames
    \cup {param_key_window(varnames) : varnames \in ChartVarnames}
    \cup {param_key_figsize(varnames) : varnames \in ChartVarnames}
    \cup {param_key_window(varnames_of(sh)) : sh \in PlotShapes}
    \cup {param_key_figsize(varnames_of(sh)) : sh \in PlotShapes}

\* ------------------------------------------------------------------------
\* The query layer: names formatted into SQL text with '{:}'.format(name)
\* ------------------------------------------------------------------------
\* sqlite's tokenizer on the text  '<name>'  : a quote inside the literal
\* closes it unless it is doubled, a doubled quote stands for one quote
\* character. s is <name> followed by the closing quote of the format
\* string; the scan starts just after the opening quote.  The statement
\* parses only when the literal ends exactly at that closing quote.
RECURSIVE ScanLiteral(_, _, _)
ScanLiteral(s, i, acc) ==
    IF i > Len(s) THEN [ok |-> FALSE, val |-> <<>>]
    ELSE IF s[i] # Quote THEN ScanLiteral(s, i + 1, Append(acc, s[i]))
    ELSE IF i < Len(s) /\ s[i + 1] = Quote
         THEN ScanLiteral(s, i + 2, Append(acc, Quote))
    ELSE [ok |-> (i = Len(s)), val |-> acc]

\* The scan of each key, computed once.
SqlLiteralOf == [k \in QueryKeys |-> ScanLiteral(k \o <<Quote>>, 1, <<>>)]

SqlLiteral(name) == SqlLiteralOf[name]

\* Result of a query method: it raises sqlite3.OperationalError, or returns.
Raised == [error |-> TRUE, rows |-> <<>>]
Returned(rows) == [error |-> FALSE, rows |-> rows]

\* The (timestamp, value) columns of a sequence of log rows.
RECURSIVE Columns(_)
Columns(rows) ==
    IF rows = <<>> THEN <<>>
    ELSE <<(<<rows[1].timestamp, rows[1].value>>)>> \o Columns(Tail(rows))

\* WHERE name='<lit>' over the log table, in rowid order.
WhereName(lit) ==
    LET Test(r) == r.name = lit
    IN SelectSeq(log, Test)

\* ORDER BY timestamp ASC: sqlite's sorter keeps rows of equal timestamp in
\* the order the scan produced them (rowid order).
RECURSIVE InsertSorted(_, _)
InsertSorted(sorted, r) ==
    IF sorted = <<>> THEN <<r>>
    ELSE IF sorted[Len(sorted)].timestamp <= r.timestamp THEN Append(sorted, r)
    ELSE Append(InsertSorted(SubSeq(sorted, 1, Len(sorted) - 1), r),
                sorted[Len(sorted)])

RECURSIVE OrderByTimestampAsc(_)
OrderByTimestampAsc(rows) ==
    IF rows = <<>> THEN <<>>
    ELSE InsertSorted(OrderByTimestampAsc(SubSeq(rows, 1, Len(rows) - 1)),
                      rows[Len(rows)])

\* ORDER BY timestamp DESC LIMIT 1, then fetchone(): the first row, in rowid
\* order, among those of greatest timestamp; None when there is no row.
OrderByTimestampDescLimit1(rows) ==
    IF rows = <<>> THEN None
    ELSE LET best == CHOOSE i \in 1..Len(rows) :
                        /\ \A j \in 1..Len(rows) :
                              rows[j].timestamp <= rows[i].timestamp
                        /\ \A j \in 1..(i - 1) :
                              rows[j].timestamp < rows[i].timestamp
         IN <<rows[best].timestamp, rows[best].value>>

\* ------------------------------------------------------------------------
\* Transactions: "with self.conn" commits on normal exit and rolls back
\* when the block raises.
\* ------------------------------------------------------------------------
connection_exit_commit_always(before, after) == after

connection_exit(before, after) ==
    IF after.raised THEN [before EXCEPT !.raised = TRUE, !.now = after.now]
    ELSE after

\* ------------------------------------------------------------------------
\* add_entry
\* ------------------------------------------------------------------------
\* The loop over kwargs.items(): st holds the tables inside the transaction,
\* names the local set read from log_names, stamps the clock readings.
RECURSIVE add_entry_loop(_, _, _, _, _)
add_entry_loop(kwargs, stamps, i, names, st) ==
    IF i > Len(kwargs) THEN st
    ELSE LET key == kwargs[i].key
             val == kwargs[i].val
             registered == IF key \notin names
                           THEN Append(st.log_names, key)
                           ELSE st.log_names
         IN IF ~Bindable(val)
            THEN [st EXCEPT !.log_names = registered, !.now = stamps[i],
                            !.raised = TRUE]
            ELSE add_entry_loop(kwargs, stamps, i + 1, names \cup {key},
                    [st EXCEPT !.log_names = registered,
                               !.log = Append(st.log,
                                   [timestamp |-> stamps[i], name |-> key,
                                    value |-> val]),
                               !.now = stamps[i]])

add_entry(kwargs, stamps) ==
    LET before == [log_names |-> log_names, log |-> log, now |-> now,
                   raised |-> FALSE]
        names == {log_names[j] : j \in 1..Len(log_names)}
    IN connection_exit(before, add_entry_loop(kwargs, stamps, 1, names, before))

\* ------------------------------------------------------------------------
\* Queries on the log
\* ------------------------------------------------------------------------
\* __getitem__: no ORDER BY, rows come in rowid order.
getitem(key) ==
    LET lit == SqlLiteral(key)
    IN IF ~lit.ok THEN Raised ELSE Returned(Columns(WhereName(lit.val)))

\* A sqlite3 cursor after execute: the rows of the result not fetched yet.
cursor_execute(rows) == [pending |-> rows]

\* c.fetchall(): the rows not fetched yet; none is left in the cursor.
fetchall(c) == [rows |-> c.pending, cursor |-> [pending |-> <<>>]]

\* logged_data: data = c.fetchall(), then names from a second c.fetchall()
\* on the same cursor, then __getitem__ for each name.
logged_data ==
    LET c == cursor_execute(log_names)
        data == fetchall(c)
        again == fetchall(data.cursor)
        names == {again.rows[i] : i \in 1..Len(again.rows)}
    IN IF \E n \in names : getitem(n).error
       THEN [error |-> TRUE, result |-> <<>>]
       ELSE [error |-> FALSE, result |-> [n \in names |-> getitem(n).rows]]

\* logged_data_fromtimestamp: timestamp > t, ORDER BY timestamp ASC.
logged_data_fromtimestamp(name, timestamp) ==
    LET lit == SqlLiteral(name)
        Newer(r) == r.timestamp > timestamp
    IN IF ~lit.ok THEN Raised
       ELSE Returned(Columns(OrderByTimestampAsc(
                SelectSeq(WhereName(lit.val), Newer))))

\* logged_last_values: one query per registered name; the first query that
\* fails makes the whole call raise.
logged_last_values ==
    LET names == {log_names[j] : j \in 1..Len(log_names)}
    IN IF \E n \in names : ~SqlLiteral(n).ok
       THEN [error |-> TRUE, result |-> <<>>]
       ELSE [error |-> FALSE,
             result |-> [n \in names |->
                 OrderByTimestampDescLimit1(WhereName(SqlLiteral(n).val))]]

\* ------------------------------------------------------------------------
\* Parameters
\* ------------------------------------------------------------------------
\* SELECT rowid FROM parameters WHERE name='<lit>', fetchone(): the rowid of
\* the first matching row, 0 standing for None.
FirstRowid(table, lit) ==
    IF \E i \in 1..Len(table) : table[i].name = lit
    THEN CHOOSE i \in 1..Len(table) :
            /\ table[i].name = lit
            /\ \A j \in 1..(i - 1) : table[j].name # lit
    ELSE 0

\* The loop over kwargs.items() of save_parameter, inside the transaction.
RECURSIVE save_parameter_loop(_, _, _)
save_parameter_loop(kwargs, i, st) ==
    IF i > Len(kwargs) THEN st
    ELSE LET key == kwargs[i].key
             val == kwargs[i].val
             lit == SqlLiteral(key)
             rowid == FirstRowid(st.parameters, lit.val)
             row == [name |-> key, value |-> val]
         IN IF ~lit.ok \/ ~Bindable(val) THEN [st EXCEPT !.raised = TRUE]
            ELSE save_parameter_loop(kwargs, i + 1,
                    [st EXCEPT !.parameters =
                        IF rowid # 0
                        THEN [st.parameters EXCEPT ![rowid] = row]
                        ELSE Append(st.parameters, row)])

save_parameter(table, kwargs) ==
    LET before == [parameters |-> table, now |-> now, raised |-> FALSE]
    IN connection_exit(before, save_parameter_loop(kwargs, 1, before))

\* parameter(name): the value of the first matching row, as <<value>>, or
\* None.
parameter(name) ==
    LET lit == SqlLiteral(name)
        rowid == FirstRowid(parameters, lit.val)
    IN IF ~lit.ok THEN [error |-> TRUE, value |-> None]
       ELSE [error |-> FALSE,
             value |-> IF rowid # 0 THEN <<parameters[rowid].value>> ELSE None]

has_parameter(name) == parameter(name).value # None

\* parameters(): {d[0]: d[1] for d in data}; a later row of the same name
\* overwrites an earlier one.
parameters_dict ==
    LET keys == {parameters[i].name : i \in 1..Len(parameters)}
        LastRow(k) == CHOOSE i \in 1..Len(parameters) :
                          /\ parameters[i].name = k
                          /\ \A j \in (i + 1)..Len(parameters) :
                                parameters[j].name # k
    IN [k \in keys |-> parameters[LastRow(k)].value]

\* ------------------------------------------------------------------------
\* Inputs of the store operations
\* ------------------------------------------------------------------------
\* kwargs: an ordered mapping of distinct keys to values.
KwargsOver(keys, vals) ==
    {kw \in UNION {[1..n -> [key : keys, val : vals]] : n \in 1..MaxEntries} :
        \A i, j \in 1..Len(kw) : kw[i].key = kw[j].key => i = j}

Kwargs == KwargsOver(Names, Values \cup {Unbindable})

ParamKwargs == KwargsOver(ParamKeys, Values \cup {Unbindable})

\* One clock reading per entry.
Stamps(n) == [1..n -> Times]

NonDecreasingFrom(t, stamps) ==
    /\ \A i \in 1..Len(stamps) : t <= stamps[i]
    /\ \A i, j \in 1..Len(stamps) : i <= j => stamps[i] <= stamps[j]

\* The number of rows a call inserts before it raises or returns.
Inserted(kwargs) ==
    Cardinality({i \in 1..Len(kwargs) :
                    \A j \in 1..i : Bindable(kwargs[j].val)})

Entries(kwargs, stamps) ==
    [i \in 1..Len(kwargs) |->
        [timestamp |-> stamps[i], name |-> kwargs[i].key,
         value |-> kwargs[i].val]]

\* ------------------------------------------------------------------------
\* Store operations as actions
\* ------------------------------------------------------------------------
AddEntryWith(kwargs, stamps) ==
    LET r == add_entry(kwargs, stamps)
    IN /\ Len(log) + Len(kwargs) <= MaxLog
       /\ log_names' = r.log_names
       /\ log' = r.log
       /\ now' = r.now
       /\ appended' = IF r.raised THEN appended
                      ELSE appended \o Entries(kwargs, stamps)
       /\ call' = [entries |-> IF r.raised THEN <<>>
                                ELSE Entries(kwargs, stamps),
                   raised |-> r.raised,
                   inserted |-> Inserted(kwargs)]
       /\ UNCHANGED <<paramVars, runVars, extVars>>

\* add_entry under the wall clock: datetime.now() may repeat a reading
\* (clock resolution) and may go back (the system clock is set back).
AddEntry ==
    \E kwargs \in Kwargs : \E stamps \in Stamps(Len(kwargs)) :
        AddEntryWith(kwargs, stamps)

\* add_entry with quote-free names under the wall clock.
AddEntryPlain ==
    \E kwargs \in KwargsOver(PlainNames, Values \cup {Unbindable}) :
        \E stamps \in Stamps(Len(kwargs)) :
            AddEntryWith(kwargs, stamps)

\* add_entry with quote-free names while the clock never goes back.
AddEntryPlainSteady ==
    \E kwargs \in KwargsOver(PlainNames, Values \cup {Unbindable}) :
        \E stamps \in Stamps(Len(kwargs)) :
            /\ NonDecreasingFrom(now, stamps)
            /\ AddEntryWith(kwargs, stamps)

SaveParameterWith(kwargs) ==
    LET r == save_parameter(parameters, kwargs)
    IN /\ Len(parameters) + Len(kwargs) <= MaxParams
       /\ parameters' = r.parameters
       /\ last_set' = IF r.raised THEN last_set
                      ELSE [k \in ParamKeys |->
                              IF \E i \in 1..Len(kwargs) : kwargs[i].key = k
                              THEN <<kwargs[CHOOSE i \in 1..Len(kwargs) :
                                        kwargs[i].key = k].val>>
                              ELSE last_set[k]]
       /\ UNCHANGED <<logVars, runVars, extVars>>

SaveParameter ==
    \E kwargs \in ParamKwargs : SaveParameterWith(kwargs)

\* ------------------------------------------------------------------------
\* run(): the arguments and the tasks built from them
\* ------------------------------------------------------------------------
\* Arguments of run(): a coroutine function, a coroutine with its own loop,
\* the coroutine plot(varnames) (here for ('a',) and for ("'",)), or
\* something that is neither.
ArgShapes == {"corofunc", "coro", "plot", "plotq", "other"}

Args == UNION {[1..n -> ArgShapes] : n \in 0..MaxTasks}

\* Coroutine functions handed to run() for mytask to wrap: "corofunc"
\* awaits something that suspends each time it is called, "corofunc0"
\* returns without suspending (async def f(sesn): sesn.add_entry(a=1)).
CoroFuncs == {"corofunc", "corofunc0"}

iscoroutinefunction(t) == t \in CoroFuncs

\* self.mytask(t): the coroutine wrapping the coroutine function t.
mytask(t) == IF t = "corofunc0" THEN "mytask0" ELSE "mytask"

iscoroutine(t) == t = "coro" \/ t \in PlotShapes

\* The for loop of run() building tasks_final; the else branch raises
\* TypeError.
RECURSIVE tasks_final_skip_invalid(_, _, _)
tasks_final_skip_invalid(args, i, acc) ==
    IF i > Len(args) THEN [raised |-> FALSE, tasks_final |-> acc]
    ELSE IF iscoroutinefunction(args[i])
         THEN tasks_final_skip_invalid(args, i + 1,
                                       Append(acc, mytask(args[i])))
    ELSE IF iscoroutine(args[i])
         THEN tasks_final_skip_invalid(args, i + 1, Append(acc, args[i]))
    ELSE tasks_final_skip_invalid(args, i + 1, acc)

RECURSIVE tasks_final_loop(_, _, _)
tasks_final_loop(args, i, acc) ==
    IF i > Len(args) THEN [raised |-> FALSE, tasks_final |-> acc]
    ELSE IF iscoroutinefunction(args[i])
         THEN tasks_final_loop(args, i + 1, Append(acc, mytask(args[i])))
    ELSE IF iscoroutine(args[i])
         THEN tasks_final_loop(args, i + 1, Append(acc, args[i]))
    ELSE [raised |-> TRUE, tasks_final |-> acc]

\* A coroutine handed to asyncio.gather by the run() call number gen, at
\* position idx of gather's arguments.
NewTask(shape, gen, idx) ==
    [shape |-> shape, pc |-> "created", gen |-> gen, idx |-> idx,
     ticks |-> 0, saves |-> 0]

\* The children of the gather of the current run() call.
Current == {tasks[i] : i \in {j \in 1..Len(tasks) : tasks[j].gen = runs}}

\* run_until_complete(gather(...)) returns when every child is done.
gather_done_on_flag == running = "false"

gather_done == \A t \in Current : t.pc = "done"

\* gather (return_exceptions left False) hands the first exception of a
\* child to run_until_complete at once; the other children stay pending.
gather_failed == \E t \in Current : t.pc = "raised"

\* ------------------------------------------------------------------------
\* plot(): steps of the renderer
\* ------------------------------------------------------------------------
\* The start of plot(): self.parameter(param_key_window) is a query on the
\* key, and raises when the key does not parse.
plot_start_raises(t) ==
    /\ t.pc = "created"
    /\ parameter(param_key_window(varnames_of(t.shape))).error

\* One pass of the while loop, up to asyncio.sleep(1).
plot_tick_no_sleep(t) == [t EXCEPT !.pc = "spinning", !.ticks = t.ticks + 1]

plot_tick(t) == [t EXCEPT !.pc = "sleeping", !.ticks = t.ticks + 1]

\* After the loop: save_parameter of the window geometry and figure size.
plot_exit_skip_save(t, geom, figsize) ==
    [task |-> [t EXCEPT !.pc = "done"], parameters |-> parameters]

plot_exit(t, geom, figsize) ==
    LET varnames == varnames_of(t.shape)
        saved == save_parameter(parameters,
                    <<[key |-> param_key_window(varnames), val |-> geom],
                      [key |-> param_key_figsize(varnames), val |-> figsize]>>)
    IN IF saved.raised
       THEN [task |-> [t EXCEPT !.pc = "raised"], parameters |-> parameters]
       ELSE [task |-> [t EXCEPT !.pc = "done", !.saves = t.saves + 1],
             parameters |-> saved.parameters]

\* ------------------------------------------------------------------------
\* Runtime actions
\* ------------------------------------------------------------------------
\* run() is called when no run() is in progress.  An exception that leaves
\* run() from an activity ends the session: run() is not called again after
\* it.  tasks holds the children of the latest gather only.
RunWith(args) ==
    LET built == tasks_final_loop(args, 1, <<>>)
        final == <<"webserver">> \o built.tasks_final
    IN /\ runPc \in {"idle", "returned", "typeerror"}
       /\ runs < MaxRuns
       /\ running' = "true"
       /\ runs' = runs + 1
       /\ callArgs' = args
       /\ IF built.raised
          THEN /\ runPc' = "typeerror"
               /\ tasks' = <<>>
          ELSE /\ runPc' = "running"
               /\ tasks' =
                    [i \in 1..Len(final) |-> NewTask(final[i], runs + 1, i)]
       /\ UNCHANGED <<logVars, paramVars, serverBound, asked, extVars>>

Run ==
    \E args \in Args : RunWith(args)

\* A task is between two suspension points and keeps the thread of the
\* event loop: the loop runs no other task and no callback meanwhile.
ThreadHeld == \E i \in 1..Len(tasks) : tasks[i].pc = "spinning"

\* ask_exit, called by the SIGINT/SIGTERM handler or by an activity.
ask_exit ==
    /\ runPc = "running"
    /\ running' = "false"
    /\ asked' = TRUE
    /\ UNCHANGED <<logVars, paramVars, runPc, runs, tasks, serverBound,
                   callArgs, extVars>>

\* mytask: while self.running: await corofunc(self).  The task is suspended
\* inside corofunc ("iter"); when corofunc returns the flag is tested with
\* no suspension in between.
MytaskStep(i) ==
    /\ tasks[i].shape = "mytask"
    /\ \/ /\ tasks[i].pc = "created"
          /\ tasks' = [tasks EXCEPT ![i].pc =
                          IF running = "true" THEN "iter" ELSE "done"]
       \/ /\ tasks[i].pc = "iter"
          /\ running = "false"
          /\ tasks' = [tasks EXCEPT ![i].pc = "done"]
    /\ UNCHANGED <<parameters, serverBound>>

\* mytask around a coroutine function that does not suspend: await
\* corofunc(self) returns at once and the while loop goes on with the
\* thread; each step is one more iteration.
Mytask0Step(i) ==
    /\ tasks[i].shape = "mytask0"
    /\ \/ /\ tasks[i].pc \in {"created", "spinning"}
          /\ running = "true"
          /\ tasks[i].ticks < MaxTicks + 1
          /\ tasks' = [tasks EXCEPT ![i].pc = "spinning",
                                    ![i].ticks = tasks[i].ticks + 1]
       \/ /\ tasks[i].pc \in {"created", "spinning"}
          /\ running = "false"
          /\ tasks' = [tasks EXCEPT ![i].pc = "done"]
    /\ UNCHANGED <<parameters, serverBound>>

\* A coroutine with its own loop: it suspends, and finishes on its own.
CoroStep(i) ==
    /\ tasks[i].shape = "coro"
    /\ \/ /\ tasks[i].pc = "created"
          /\ \E pc \in {"iter", "done"} : tasks' = [tasks EXCEPT ![i].pc = pc]
       \/ /\ tasks[i].pc = "iter"
          /\ tasks' = [tasks EXCEPT ![i].pc = "done"]
    /\ UNCHANGED <<parameters, serverBound>>

\* plot() from one suspension point to the next: it raises at its start,
\* or ticks while running is true, or leaves the loop and saves.
PlotStep(i) ==
    /\ tasks[i].shape \in PlotShapes
    /\ tasks[i].pc \in {"created", "sleeping"}
    /\ \/ /\ plot_start_raises(tasks[i])
          /\ tasks' = [tasks EXCEPT ![i].pc = "raised"]
          /\ UNCHANGED parameters
       \/ /\ ~plot_start_raises(tasks[i])
          /\ running = "true"
          /\ tasks[i].ticks < MaxTicks
          /\ tasks' = [tasks EXCEPT ![i] = plot_tick(tasks[i])]
          /\ UNCHANGED parameters
       \/ /\ ~plot_start_raises(tasks[i])
          /\ running = "false"
          /\ \E geom \in Values, figsize \in Values :
                LET r == plot_exit(tasks[i], geom, figsize)
                IN /\ tasks' = [tasks EXCEPT ![i] = r.task]
                   /\ parameters' = r.parameters
    /\ UNCHANGED serverBound

\* loop.create_server(..., port=6913): binding fails while a listener of an
\* earlier run() is still open (run() never closes it).
WebserverStep(i) ==
    /\ tasks[i].shape = "webserver"
    /\ tasks[i].pc = "created"
    /\ tasks' = [tasks EXCEPT ![i].pc =
                    IF serverBound THEN "raised" ELSE "done"]
    /\ serverBound' = TRUE
    /\ UNCHANGED parameters

TaskStep(i) ==
    /\ runPc = "running"
    /\ i \in 1..Len(tasks)
    /\ ThreadHeld => tasks[i].pc = "spinning"
    /\ \/ MytaskStep(i)
       \/ Mytask0Step(i)
       \/ CoroStep(i)
       \/ PlotStep(i)
       \/ WebserverStep(i)
    /\ UNCHANGED <<logVars, last_set, running, runPc, runs, asked, callArgs,
                   extVars>>

\* An activity raises inside its iteration; create_server raises because
\* another process holds the port.
TaskRaise(i) ==
    /\ runPc = "running"
    /\ i \in 1..Len(tasks)
    /\ ~ThreadHeld
    /\ tasks[i].shape \in {"mytask", "coro", "webserver"}
    /\ \/ tasks[i].pc = "iter"
       \/ tasks[i].pc = "created" /\ tasks[i].shape # "mytask"
       \/ tasks[i].pc = "created" /\ running = "true"
    /\ tasks' = [tasks EXCEPT ![i].pc = "raised"]
    /\ UNCHANGED <<logVars, paramVars, running, runPc, runs, serverBound,
                   asked, callArgs, extVars>>

RunReturn ==
    /\ runPc = "running"
    /\ ~ThreadHeld
    /\ gather_done
    /\ runPc' = "returned"
    /\ UNCHANGED <<logVars, paramVars, running, runs, tasks, serverBound,
                   asked, callArgs, extVars>>

RunRaise ==
    /\ runPc = "running"
    /\ ~ThreadHeld
    /\ gather_failed
    /\ runPc' = "raised"
    /\ UNCHANGED <<logVars, paramVars, running, runs, tasks, serverBound,
                   asked, callArgs, extVars>>

\* The handler of loop.add_signal_handler: a callback of the event loop,
\* run when the loop has the thread.
SignalHandler ==
    /\ ~ThreadHeld
    /\ ask_exit

\* run() on activities that suspend, activities that do not, and charts.
YieldArgs ==
    UNION {[1..n -> {"corofunc", "corofunc0", "plot"}] : n \in 1..MaxTasks}

RunYield ==
    /\ runs = 0
    /\ \E args \in YieldArgs : RunWith(args)

TaskIds == 1..(MaxTasks + 1)

\* ------------------------------------------------------------------------
\* sleep(duration, verbose).  Times are in tenths of a second.
\* ------------------------------------------------------------------------
\* plt.pause(0.7): blocks the thread, the event loop runs nothing meanwhile.
PauseTime == 7

\* await asyncio.sleep(0.3), after the pause of the verbose branch.
VerboseSleep == 3

\* await asyncio.sleep(1.0), the branch that is not verbose.
PlainSleep == 10

Durations == 0..MaxDuration

\* The calls of sleep() in progress, one per activity.
Sleepers == {1, 2}

\* No call of sleep() in progress.
NotSleeping == [pc |-> "idle", verbose |-> FALSE, left |-> 0, remain |-> 0]

\* The thread is inside plt.pause of some sleeper.
Blocked == \E k \in Sleepers : sleepers[k].pc = "pause"

\* The while condition of sleep() and the branch taken: remain is
\* duration - (time.monotonic() - start), 0 once duration has elapsed.
sleep_loop_ignore_running(sl) ==
    IF sl.remain > 0
    THEN IF sl.verbose
         THEN [sl EXCEPT !.pc = "pause", !.left = PauseTime]
         ELSE [sl EXCEPT !.pc = "asleep", !.left = PlainSleep]
    ELSE [sl EXCEPT !.pc = "returned", !.left = 0]

sleep_loop(sl) ==
    IF running = "true" /\ sl.remain > 0
    THEN IF sl.verbose
         THEN [sl EXCEPT !.pc = "pause", !.left = PauseTime]
         ELSE [sl EXCEPT !.pc = "asleep", !.left = PlainSleep]
    ELSE [sl EXCEPT !.pc = "returned", !.left = 0]

\* run() with two coroutine functions, each of which calls sleep().
RunSleepers ==
    /\ runs = 0
    /\ Run
    /\ callArgs' = <<"corofunc", "corofunc">>

\* An activity calls sleep(duration, verbose): start is read and the while
\* condition tested with no suspension in between.
SleepCall(k) ==
    /\ runPc = "running"
    /\ ~Blocked
    /\ sleepers[k].pc \in {"idle", "returned"}
    /\ \E duration \in Durations, verbose \in BOOLEAN :
          sleepers' = [sleepers EXCEPT ![k] =
              sleep_loop([pc |-> "idle", verbose |-> verbose, left |-> 0,
                          remain |-> duration])]
    /\ UNCHANGED <<logVars, paramVars, runVars, sinceFalse, viewVars, charts,
                   storeVars>>

\* plt.pause(0.7) returns; await asyncio.sleep(0.3) starts.
PauseEnd(k) ==
    /\ sleepers[k].pc = "pause"
    /\ sleepers[k].left = 0
    /\ sleepers' = [sleepers EXCEPT ![k].pc = "asleep", ![k].left = VerboseSleep]
    /\ UNCHANGED <<logVars, paramVars, runVars, sinceFalse, viewVars, charts,
                   storeVars>>

\* asyncio.sleep is over and the event loop resumes sleep(): the while
\* condition is tested again.
SleepWake(k) ==
    /\ sleepers[k].pc = "asleep"
    /\ sleepers[k].left = 0
    /\ ~Blocked
    /\ sleepers' = [sleepers EXCEPT ![k] = sleep_loop(sleepers[k])]
    /\ UNCHANGED <<logVars, paramVars, runVars, sinceFalse, viewVars, charts,
                   storeVars>>

Decrement(n) == IF n > 0 THEN n - 1 ELSE 0

\* A tenth of a second passes.  A pause that is over returns first, and
\* the event loop, unless the thread is blocked in a pause, resumes a
\* sleeper whose timer is due before more time passes.
TimePasses ==
    /\ runPc = "running"
    /\ \E k \in Sleepers : sleepers[k].pc \in {"pause", "asleep"}
    /\ \A k \in Sleepers :
          /\ sleepers[k].pc = "pause" => sleepers[k].left > 0
          /\ (sleepers[k].pc = "asleep" /\ ~Blocked) => sleepers[k].left > 0
    /\ sleepers' = [k \in Sleepers |->
          IF sleepers[k].pc \in {"pause", "asleep"}
          THEN [sleepers[k] EXCEPT !.left = Decrement(@),
                                   !.remain = Decrement(@)]
          ELSE sleepers[k]]
    /\ sinceFalse' = IF running = "false" /\ sinceFalse <= PlainSleep + PauseTime
                     THEN sinceFalse + 1
                     ELSE sinceFalse
    /\ UNCHANGED <<logVars, paramVars, runVars, viewVars, charts, storeVars>>

\* ------------------------------------------------------------------------
\* plot(): the loop body.  A clock reading is one hour (3600 s); x values
\* are in twentieths of an hour, y values in two-hundredths of a unit, so
\* that the margins matplotlib applies are whole numbers.
\* ------------------------------------------------------------------------
\* (ts - ts0) / 3600
XScale == 20

YScale == 200

\* plot(varnames, maxvalues): the watched names and the capacity.
VarnamesChoices == {<<NameA>>, <<NameA, NameB>>}

Capacities == 1..MaxCapacity

Watched(varnames) == {varnames[i] : i \in 1..Len(varnames)}

\* No plot() coroutine started.
NoView ==
    [pc |-> "none", varnames |-> <<>>, maxvalues |-> 0, last_update |-> <<>>,
     initial_timestamps |-> <<>>, xdata |-> <<>>, ydata |-> <<>>,
     xlim |-> <<0, 0>>, ylim |-> <<0, 0>>, yauto |-> TRUE, ydatalim |-> None]

\* The locals of plot() when the while loop is reached: last_update is 0
\* for each name, no line exists, and the axes of add_subplot(111) have
\* the limits (0, 1) with autoscaling on.
plot_locals(varnames, maxvalues) ==
    [pc |-> "ticking", varnames |-> varnames, maxvalues |-> maxvalues,
     last_update |-> [k \in Watched(varnames) |-> 0],
     initial_timestamps |-> [k \in Watched(varnames) |-> None],
     xdata |-> [k \in Watched(varnames) |-> <<>>],
     ydata |-> [k \in Watched(varnames) |-> <<>>],
     xlim |-> <<0, XScale>>, ylim |-> <<0, YScale>>,
     yauto |-> TRUE, ydatalim |-> None]

SeqMin(s) == CHOOSE m \in {s[i] : i \in 1..Len(s)} :
                \A i \in 1..Len(s) : m <= s[i]

SeqMax(s) == CHOOSE m \in {s[i] : i \in 1..Len(s)} :
                \A i \in 1..Len(s) : s[i] <= m

Abs(n) == IF n < 0 THEN 0 - n ELSE n

\* x[-maxvalues:] taken when x.size > maxvalues.
keep_first(x, maxvalues) ==
    IF Len(x) > maxvalues THEN SubSeq(x, 1, maxvalues) ELSE x

keep_last(x, maxvalues) ==
    IF Len(x) > maxvalues
    THEN IF maxvalues = 0 THEN x
         ELSE SubSeq(x, Len(x) - maxvalues + 1, Len(x))
    ELSE x

\* set_xlim / set_ylim on equal limits: matplotlib expands them by 0.05
\* around 0, by 5 % of the value otherwise.
nonsingular(lim, scale) ==
    IF lim[1] # lim[2] THEN lim
    ELSE IF lim[1] = 0 THEN <<0 - (scale \div 20), scale \div 20>>
    ELSE <<lim[1] - (Abs(lim[1]) \div 20), lim[2] + (Abs(lim[2]) \div 20)>>

\* ax.plot with autoscaling on for y: the data limits, made nonsingular,
\* plus a margin of 5 % of their length on each side.
autoscale_y(datalim) ==
    LET ns == nonsingular(datalim, YScale)
        delta == (ns[2] - ns[1]) \div 20
    IN <<ns[1] - delta, ns[2] + delta>>

Hull(datalim, y) ==
    IF datalim = None THEN <<SeqMin(y), SeqMax(y)>>
    ELSE <<IF SeqMin(y) < datalim[1] THEN SeqMin(y) ELSE datalim[1],
           IF SeqMax(y) > datalim[2] THEN SeqMax(y) ELSE datalim[2]>>

\* The body of "for name, values in data.items()" for one name: rows is
\* the result of logged_data_fromtimestamp(name, last_update[name]).
plot_consume(v, name, rows) ==
    IF rows = <<>> THEN v
    ELSE LET initial == v.initial_timestamps[name] = None
             ts0 == IF initial THEN rows[1][1]
                    ELSE v.initial_timestamps[name][1]
             newx == [i \in 1..Len(rows) |-> (rows[i][1] - ts0) * XScale]
             newy == [i \in 1..Len(rows) |-> rows[i][2] * YScale]
             x == keep_last(IF initial THEN newx ELSE v.xdata[name] \o newx,
                            v.maxvalues)
             y == keep_last(IF initial THEN newy ELSE v.ydata[name] \o newy,
                            v.maxvalues)
             datalim == Hull(v.ydatalim, y)
             widen == v.ylim[2] < SeqMax(y) \/ v.ylim[1] > SeqMin(y)
             drawn == [v EXCEPT !.xdata[name] = x, !.ydata[name] = y,
                                !.last_update[name] = rows[Len(rows)][1]]
         IN IF initial
            THEN [drawn EXCEPT
                    !.initial_timestamps[name] = <<ts0>>,
                    !.ydatalim = datalim,
                    !.ylim = IF v.yauto THEN autoscale_y(datalim) ELSE v.ylim,
                    !.xlim = nonsingular(<<x[1], x[Len(x)]>>, XScale)]
            ELSE [drawn EXCEPT
                    !.xlim = IF v.xlim[2] < x[Len(x)]
                             THEN nonsingular(<<x[1], x[Len(x)]>>, XScale)
                             ELSE v.xlim,
                    !.ylim = IF widen
                             THEN nonsingular(
                                    <<IF v.ylim[1] < SeqMin(y) THEN v.ylim[1]
                                      ELSE SeqMin(y),
                                      IF v.ylim[2] > SeqMax(y) THEN v.ylim[2]
                                      ELSE SeqMax(y)>>, YScale)
                             ELSE v.ylim,
                    !.yauto = IF widen THEN FALSE ELSE v.yauto]

\* One pass of the while loop up to asyncio.sleep(1): the queries for all
\* names first, then the names in the order of varnames.
RECURSIVE plot_loop_body(_, _, _)
plot_loop_body(v, data, i) ==
    IF i > Len(v.varnames) THEN v
    ELSE plot_loop_body(plot_consume(v, v.varnames[i], data[v.varnames[i]].rows),
                        data, i + 1)

plot_data(v) ==
    [k \in Watched(v.varnames) |->
        logged_data_fromtimestamp(k, v.last_update[k])]

\* run() with an activity that appends and the coroutine plot(...).
RunPlot ==
    /\ runs = 0
    /\ Run
    /\ callArgs' = <<"corofunc", "coro">>

\* plot(varnames, maxvalues) starts and reaches its while loop.
PlotCall ==
    /\ runPc = "running"
    /\ view.pc = "none"
    /\ \E varnames \in VarnamesChoices, maxvalues \in Capacities :
          view' = plot_locals(varnames, maxvalues)
    /\ consumed' = [k \in PlainNames |-> <<>>]
    /\ UNCHANGED <<logVars, paramVars, runVars, sleepVars, charts, storeVars>>

\* A tick of the renderer.
PlotTick ==
    /\ runPc = "running"
    /\ running = "true"
    /\ view.pc = "ticking"
    /\ LET data == plot_data(view)
       IN IF \E k \in DOMAIN data : data[k].error
          THEN /\ view' = [view EXCEPT !.pc = "raised"]
               /\ UNCHANGED consumed
          ELSE /\ view' = plot_loop_body(view, data, 1)
               /\ consumed' = [k \in PlainNames |->
                     IF k \in DOMAIN data THEN consumed[k] \o data[k].rows
                     ELSE consumed[k]]
    /\ UNCHANGED <<logVars, paramVars, runVars, sleepVars, charts, storeVars>>

\* ------------------------------------------------------------------------
\* plot(): the parameter keys of a chart
\* ------------------------------------------------------------------------
\* The keys plot(varnames) computes before anything else.
plot_keys(varnames) ==
    [varnames |-> varnames,
     param_key_window |-> param_key_window(varnames),
     param_key_figsize |-> param_key_figsize(varnames),
     saved |-> FALSE]

\* A chart is opened: plot(varnames) is called, in this or an earlier run
\* of the session.
ChartOpen ==
    /\ Len(charts) < MaxCharts
    /\ \E varnames \in ChartVarnames :
          charts' = Append(charts, plot_keys(varnames))
    /\ UNCHANGED <<logVars, paramVars, runVars, sleepVars, viewVars, storeVars>>

\* A chart leaves its loop and saves its geometry and figure size under
\* its keys.
ChartSave(i) ==
    /\ i \in 1..Len(charts)
    /\ ~charts[i].saved
    /\ \E geom \in Values, figsize \in Values :
          LET r == save_parameter(parameters,
                      <<[key |-> charts[i].param_key_window, val |-> geom],
                        [key |-> charts[i].param_key_figsize, val |-> figsize]>>)
          IN parameters' = r.parameters
    /\ charts' = [charts EXCEPT ![i].saved = TRUE]
    /\ UNCHANGED <<logVars, last_set, runVars, sleepVars, viewVars, storeVars>>

\* ------------------------------------------------------------------------
\* __init__ and __exit__
\* ------------------------------------------------------------------------
\* The tables of a file and their rows.
File == [schema |-> schema, log_names |-> log_names, log |-> log,
         parameters |-> parameters]

\* CREATE TABLE log_names, log, parameters: three relations with no row.
create_tables(file) ==
    [schema |-> Database(file.schema.relations \cup Relations),
     log_names |-> <<>>, log |-> <<>>, parameters |-> <<>>]

\* __init__: the SELECT on sqlite_master raises on a file that is not a
\* database; the tables are created only when no relation is listed.
session_init_always_create(file) ==
    IF ~file.schema.db THEN [raised |-> TRUE, file |-> file]
    ELSE [raised |-> FALSE, file |-> create_tables(file)]

session_init(file) ==
    IF ~file.schema.db THEN [raised |-> TRUE, file |-> file]
    ELSE IF file.schema.relations = {}
         THEN [raised |-> FALSE, file |-> create_tables(file)]
    ELSE [raised |-> FALSE, file |-> file]

\* AsyncSession(session_name)
StoreOpen ==
    /\ conn = "closed"
    /\ opens < MaxOpens
    /\ LET r == session_init(File)
       IN /\ conn' = IF r.raised THEN "closed" ELSE "open"
          /\ schema' = r.file.schema
          /\ log_names' = r.file.log_names
          /\ log' = r.file.log
          /\ parameters' = r.file.parameters
    /\ opens' = opens + 1
    /\ UNCHANGED <<now, appended, call, last_set, runVars, sleepVars, viewVars,
                   charts>>

\* __exit__: self.conn.close()
StoreClose ==
    /\ conn = "open"
    /\ conn' = "closed"
    /\ UNCHANGED <<logVars, paramVars, runVars, sleepVars, viewVars, charts,
                   schema, opens>>

\* add_entry(a=v) and save_parameter(a=v) on an open session whose file
\* has the tables.
StoreAppend ==
    /\ conn = "open"
    /\ Relations \subseteq schema.relations
    /\ \E v \in Values : \E t \in Times :
          /\ now <= t
          /\ AddEntryWith(<<[key |-> NameA, val |-> v]>>, <<t>>)

StoreSaveParameter ==
    /\ conn = "open"
    /\ Relations \subseteq schema.relations
    /\ \E v \in Values : SaveParameterWith(<<[key |-> NameA, val |-> v]>>)

\* ------------------------------------------------------------------------
\* Specifications
\* ------------------------------------------------------------------------
InitSession ==
    /\ log_names = <<>>
    /\ log = <<>>
    /\ parameters = <<>>
    /\ now = 1
    /\ appended = <<>>
    /\ call = [entries |-> <<>>, raised |-> FALSE, inserted |-> 0]
    /\ last_set = [k \in ParamKeys |-> None]
    /\ running = "unset"
    /\ runPc = "idle"
    /\ runs = 0
    /\ tasks = <<>>
    /\ serverBound = FALSE
    /\ asked = FALSE
    /\ callArgs = <<>>
    /\ sleepers = [k \in Sleepers |-> NotSleeping]
    /\ sinceFalse = 0
    /\ view = NoView
    /\ consumed = [k \in PlainNames |-> <<>>]
    /\ charts = <<>>

\* A session just constructed on a new file.
Init ==
    /\ InitSession
    /\ schema = Database(Relations)
    /\ conn = "open"
    /\ opens = 1

\* A file, and no session object yet.
InitStore ==
    /\ InitSession
    /\ schema \in FileChoices
    /\ conn = "closed"
    /\ opens = 0

\* The log under the wall clock, any names.
Next == AddEntry

Spec == Init /\ [][Next]_vars

\* The log with quote-free names under the wall clock.
NextPlain == AddEntryPlain

SpecPlain == Init /\ [][NextPlain]_vars

\* The log with quote-free names and a clock that never goes back.
NextSteady == AddEntryPlainSteady

SpecSteady == Init /\ [][NextSteady]_vars

\* The parameter table.
NextParam == SaveParameter

SpecParam == Init /\ [][NextParam]_vars

\* The runtime.
NextRun ==
    \/ Run
    \/ ask_exit
    \/ \E i \in TaskIds : TaskStep(i)
    \/ \E i \in TaskIds : TaskRaise(i)
    \/ RunReturn
    \/ RunRaise

SpecRun == Init /\ [][NextRun]_vars

\* While run_until_complete is in progress the event loop does not stall:
\* it runs a task that is ready, and run() returns or raises once gather's
\* future is set.
LoopProgress ==
    \/ \E i \in TaskIds : TaskStep(i)
    \/ RunReturn
    \/ RunRaise

\* A session whose run() is called once.
RunOnce == runs = 0 /\ Run

NextRunOnce ==
    \/ RunOnce
    \/ ask_exit
    \/ \E i \in TaskIds : TaskStep(i)
    \/ \E i \in TaskIds : TaskRaise(i)
    \/ RunReturn
    \/ RunRaise

SpecRunFair ==
    /\ Init
    /\ [][NextRunOnce]_vars
    /\ WF_vars(LoopProgress)

\* The activities of one run() calling sleep() while time passes.
NextSleep ==
    \/ RunSleepers
    \/ ask_exit
    \/ \E k \in Sleepers : SleepCall(k)
    \/ \E k \in Sleepers : PauseEnd(k)
    \/ \E k \in Sleepers : SleepWake(k)
    \/ TimePasses

SpecSleep == Init /\ [][NextSleep]_vars

\* One renderer ticking while an activity appends, the clock never going
\* back.
NextPlot ==
    \/ RunPlot
    \/ ask_exit
    \/ AddEntryPlainSteady
    \/ PlotCall
    \/ PlotTick

SpecPlot == Init /\ [][NextPlot]_vars

\* Charts opened on one store, each saving under its keys.
NextCharts ==
    \/ ChartOpen
    \/ \E i \in 1..MaxCharts : ChartSave(i)

SpecCharts == Init /\ [][NextCharts]_vars

\* A file opened, written, closed and opened again.
NextStore ==
    \/ StoreOpen
    \/ StoreClose
    \/ StoreAppend
    \/ StoreSaveParameter

SpecStore == InitStore /\ [][NextStore]_vars

\* One run() under signals delivered through the event loop.
NextYield ==
    \/ RunYield
    \/ SignalHandler
    \/ \E i \in TaskIds : TaskStep(i)
    \/ \E i \in TaskIds : TaskRaise(i)
    \/ RunReturn
    \/ RunRaise

SpecYield == Init /\ [][NextYield]_vars

\* ------------------------------------------------------------------------
\* Properties
\* ------------------------------------------------------------------------
\* The (timestamp, value) pairs appended under a name, in call order.
AppendedUnder(name) ==
    LET Test(r) == r.name = name
    IN Columns(SelectSeq(appended, Test))

NonDecreasing(rows) ==
    \A i, j \in 1..Len(rows) : i <= j => rows[i][1] <= rows[j][1]

RowsNewerThan(rows, t) ==
    LET Test(r) == r[1] > t
    IN SelectSeq(rows, Test)

AllNames == Names \cup PlainNames

\* C1: read_all(name) (__getitem__) returns exactly the pairs appended under
\* name, in call order, with non-decreasing timestamps; an empty sequence
\* for a name never appended.
C1_ReadAllReturnsAppended ==
    \A n \in AllNames :
        /\ getitem(n).rows = AppendedUnder(n)
        /\ NonDecreasing(getitem(n).rows)

\* C2: read_since(name, t) (logged_data_fromtimestamp) returns exactly the
\* rows of read_all(name) whose timestamp is greater than t, in the order
\* read_all(name) returns them.
C2_ReadSinceFiltersReadAll ==
    \A n \in AllNames : \A t \in {0} \cup Times :
        logged_data_fromtimestamp(n, t).rows
            = RowsNewerThan(getitem(n).rows, t)

\* C3: latest_all() (logged_last_values) has exactly the names appended at
\* least once as keys, each mapped to the pair written by the most recent
\* append for that name.
C3_LatestAllIsMostRecent ==
    /\ ~logged_last_values.error
    /\ DOMAIN logged_last_values.result
         = {appended[i].name : i \in 1..Len(appended)}
    /\ \A n \in DOMAIN logged_last_values.result :
          logged_last_values.result[n]
             = AppendedUnder(n)[Len(AppendedUnder(n))]

\* C4: the parameter table holds at most one row per key, get_parameter(k)
\* is the value of the most recent set_parameter for k (None if never set)
\* and all_parameters() has one entry for a key that was set.
C4_ParameterUpsert ==
    \A k \in ParamKeys :
        /\ Cardinality({i \in 1..Len(parameters) : parameters[i].name = k}) <= 1
        /\ parameter(k).value = last_set[k]
        /\ last_set[k] # None =>
              /\ k \in DOMAIN parameters_dict
              /\ <<parameters_dict[k]>> = last_set[k]

\* A step leaves the log as it was, or adds every entry of a call that did
\* not raise.
C5_AllOrNothing ==
    \/ log' = log
    \/ log' = log \o call'.entries /\ ~call'.raised

\* C5: in every observable state each name of a log row is in the name
\* registry, and an append call makes all of its entries visible or none.
C5_RegistryAndAtomicity ==
    /\ [](\A i \in 1..Len(log) :
            \E j \in 1..Len(log_names) : log_names[j] = log[i].name)
    /\ [][C5_AllOrNothing]_vars

\* An append that failed on its second entry, on a store that has rows.
C5_Witness ==
    /\ call.raised
    /\ call.inserted >= 1
    /\ log # <<>>

\* C6: once ask_exit has made running false, it never becomes true again.
C6_RunningStaysFalse ==
    [][(asked /\ running = "false") => running' = "false"]_vars

\* C7: after running flips to false during run(), run() returns, and it
\* returns only when every wrapped loop and every coroutine has exited on
\* its own; none is left in the middle of an iteration.
C7_CooperativeShutdown ==
    /\ [](runPc = "returned" =>
            \A i \in 1..Len(tasks) : tasks[i].pc = "done")
    /\ (runPc = "running" /\ running = "false")
          ~> (\/ runPc = "returned"
              \/ \E i \in 1..Len(tasks) : tasks[i].pc = "raised")

\* run() has returned after a stop request, with a wrapped loop and a
\* self-managed coroutine among its tasks.
C7_Witness ==
    /\ runPc = "returned"
    /\ asked
    /\ running = "false"
    /\ \E i, j \in 1..Len(tasks) :
          tasks[i].shape = "mytask" /\ tasks[j].shape = "coro"

\* C8: when an activity raises during run(), run() does not end while
\* another activity is still suspended in its loop, its flush not done.
C8_ErrorAfterFlush ==
    (/\ runPc = "raised"
     /\ \E i \in 1..Len(tasks) :
           tasks[i].shape \in {"mytask", "coro"} /\ tasks[i].pc = "raised")
    => \A j \in 1..Len(tasks) : tasks[j].pc \notin {"iter", "sleeping"}

\* A renderer saves at most once, and has saved when run() has returned.
C9_SavedOnce ==
    \A i \in 1..Len(tasks) :
        tasks[i].shape \in PlotShapes =>
            /\ tasks[i].saves <= 1
            /\ runPc = "returned" =>
                  /\ tasks[i].saves = 1
                  /\ has_parameter(param_key_window(varnames_of(tasks[i].shape)))
                  /\ has_parameter(param_key_figsize(varnames_of(tasks[i].shape)))

\* A renderer that has saved neither ticks nor saves again.
C9_NoTickAfterSave ==
    \A i \in 1..Len(tasks) :
        (tasks[i].saves = 1 /\ i <= Len(tasks') /\ tasks'[i].gen = tasks[i].gen)
            => tasks'[i].ticks = tasks[i].ticks /\ tasks'[i].saves = 1

\* C9: when run() returns, every renderer it started has saved its window
\* geometry and figure size exactly once, and a renderer never ticks after
\* saving.
C9_PersistOnceAtShutdown ==
    /\ []C9_SavedOnce
    /\ [][C9_NoTickAfterSave]_vars

\* run() has returned after a stop request and a renderer that ticked has
\* saved.
C9_Witness ==
    /\ runPc = "returned"
    /\ asked
    /\ \E i \in 1..Len(tasks) :
          /\ tasks[i].shape = "plot"
          /\ tasks[i].ticks >= 1
          /\ tasks[i].saves = 1

\* Some argument is neither a coroutine function nor a coroutine.
HasInvalid(args) ==
    \E i \in 1..Len(args) :
        ~iscoroutinefunction(args[i]) /\ ~iscoroutine(args[i])

\* C10: an argument of run() that is neither a coroutine function nor a
\* coroutine, at any position, makes run() raise TypeError with no task
\* scheduled: no activity, renderer or listener has taken a step.
C10_TypeErrorBeforeAnyStep ==
    HasInvalid(callArgs) =>
        /\ runPc = "typeerror"
        /\ tasks = <<>>

\* A TypeError for an invalid argument that follows a valid one.
C10_Witness ==
    /\ runPc = "typeerror"
    /\ Len(callArgs) >= 2
    /\ iscoroutinefunction(callArgs[1]) \/ iscoroutine(callArgs[1])
    /\ ~iscoroutinefunction(callArgs[2]) /\ ~iscoroutine(callArgs[2])

\* The time a call of sleep() may still sleep once running is false.
Increment(verbose) == IF verbose THEN PauseTime + VerboseSleep ELSE PlainSleep

\* A call of sleep() leaves asyncio.sleep by returning exactly when running
\* is false or duration has elapsed.
C11_CheckedEachIncrement ==
    \A k \in Sleepers :
        (sleepers[k].pc = "asleep" /\ sleepers'[k].pc # "asleep") =>
            (sleepers'[k].pc = "returned"
                <=> (running = "false" \/ sleepers[k].remain = 0))

\* C11: sleep() returns only when duration has elapsed or running is false,
\* it tests both once per increment, and it is never still sleeping more
\* than one increment (1.0 s, or 0.7 s + 0.3 s when verbose) after running
\* became false.
C11_SleepBoundedByIncrement ==
    /\ [](\A k \in Sleepers :
            /\ (sleepers[k].pc \in {"pause", "asleep"} /\ running = "false")
                  => sinceFalse <= Increment(sleepers[k].verbose)
            /\ sleepers[k].pc = "returned"
                  => (running = "false" \/ sleepers[k].remain = 0))
    /\ [][C11_CheckedEachIncrement]_vars

\* A verbose call of sleep() with time left has returned after a stop
\* request that came while it slept.
C11_Witness ==
    /\ running = "false"
    /\ sinceFalse >= PauseTime
    /\ \E k \in Sleepers :
          /\ sleepers[k].pc = "returned"
          /\ sleepers[k].verbose
          /\ sleepers[k].remain > 0

\* The points (elapsed time, value) of the rows consumed for a name, the
\* elapsed time counted from the first row consumed.
ConsumedPoints(name) ==
    [i \in 1..Len(consumed[name]) |->
        <<(consumed[name][i][1] - consumed[name][1][1]) * XScale,
          consumed[name][i][2] * YScale>>]

WindowPoints(name) ==
    [i \in 1..Len(view.xdata[name]) |->
        <<view.xdata[name][i], view.ydata[name][i]>>]

MostRecent(s, n) ==
    IF Len(s) <= n THEN s ELSE SubSeq(s, Len(s) - n + 1, Len(s))

\* C12: after any ticks and batches the window of each watched name holds
\* at most maxvalues points, and they are the most recently consumed
\* min(maxvalues, total consumed) points in consumption order.
C12_WindowKeepsMostRecent ==
    view.pc = "ticking" =>
        \A name \in Watched(view.varnames) :
            /\ Len(view.xdata[name]) <= view.maxvalues
            /\ Len(view.ydata[name]) = Len(view.xdata[name])
            /\ WindowPoints(name)
                  = MostRecent(ConsumedPoints(name), view.maxvalues)

\* A window that is full after more rows were consumed than it holds, the
\* first batch alone being larger than the capacity.
C12_Witness ==
    /\ view.pc = "ticking"
    /\ view.maxvalues = 1
    /\ Len(consumed[NameA]) = 3
    /\ view.last_update[NameA] = 2
    /\ Len(view.xdata[NameA]) = 1
    /\ view.xdata[NameA][1] = XScale

\* C13: two charts use the same parameter keys exactly when they watch the
\* same set of names, in whatever order the names are given.
C13_KeysFollowWatchedSet ==
    \A i, j \in 1..Len(charts) :
        (Watched(charts[i].varnames) = Watched(charts[j].varnames))
            <=> (/\ charts[i].param_key_window = charts[j].param_key_window
                 /\ charts[i].param_key_figsize = charts[j].param_key_figsize)

\* Opening keeps the rows and relations of a file that has a relation and
\* creates the three tables in one that has none; closing changes no row.
C14_OpenPreserves ==
    /\ (conn = "closed" /\ conn' = "open" /\ schema.relations # {}) =>
          /\ schema' = schema
          /\ log_names' = log_names
          /\ log' = log
          /\ parameters' = parameters
    /\ (conn = "closed" /\ conn' = "open" /\ schema.relations = {}) =>
          schema' = Database(Relations)
    /\ (conn = "open" /\ conn' = "closed") =>
          /\ schema' = schema
          /\ log_names' = log_names
          /\ log' = log
          /\ parameters' = parameters

\* C14: closing a store and opening it again under the same name keeps
\* every log row, registered name and parameter; open creates the three
\* relations only in a store that has none and never drops or recreates
\* the relations of an existing store.
C14_ReopenRoundTrip ==
    [][C14_OpenPreserves]_vars

\* A store opened for the second time, holding the rows and parameters
\* written before it was closed.
C14_Witness ==
    /\ conn = "open"
    /\ opens >= 2
    /\ Len(log) >= 2
    /\ parameters # <<>>

\* C15: open never yields a session on a file that is not a store of this
\* schema, such as a database that has other relations.
C15_OpenRejectsForeignStore ==
    conn = "open" => (schema.db /\ schema.relations = Relations)

\* C16: for every name accepted by append or set_parameter, a name with a
\* single quote included, read_all, read_since, latest_all, get_parameter
\* and a further set_parameter on that name do not raise and return the
\* data of that name.
C16_AcceptedNamesReadable ==
    /\ \A j \in 1..Len(log_names) :
          LET n == log_names[j]
          IN /\ getitem(n) = Returned(Columns(WhereName(n)))
             /\ \A t \in {0} \cup Times :
                   ~logged_data_fromtimestamp(n, t).error
             /\ ~logged_last_values.error
    /\ \A i \in 1..Len(parameters) :
          LET k == parameters[i].name
          IN /\ ~parameter(k).error
             /\ parameter(k).value # None
             /\ ~save_parameter(parameters, <<[key |-> k, val |-> 1]>>).raised

\* A line is drawn in the axes of the view.
HasLine(v) ==
    \E k \in DOMAIN v.initial_timestamps : v.initial_timestamps[k] # None

\* The interval new covers the interval old.
Covers(new, old) == new[1] <= old[1] /\ new[2] >= old[2]

\* C17: across the renderer ticks of a session, for one or several watched
\* variables and when the window evicts old points, neither the horizontal
\* nor the vertical interval of the view is smaller on either side after
\* a tick than before it.
C17_ExtentsOnlyWiden ==
    [][(view.pc = "ticking" /\ view'.pc = "ticking" /\ HasLine(view)) =>
          /\ Covers(view'.xlim, view.xlim)
          /\ Covers(view'.ylim, view.ylim)]_vars

\* C18: every iteration of mytask and every tick of plot passes through a
\* suspension point, so that while an activity loops no task keeps the
\* thread and a delivered stop signal can set running to false.
C18_EveryIterationSuspends ==
    runPc = "running" => (~ThreadHeld /\ ENABLED SignalHandler)

\* No coroutine function of the current run() returns without suspending.
AllSuspend == \A t \in Current : t.shape # "mytask0"

\* While a task keeps the thread the flag stays as it is and no other task
\* moves.
C18_HeldThreadBlocks ==
    ThreadHeld =>
        /\ running' = running
        /\ runPc' = runPc
        /\ \A i \in 1..Len(tasks) :
              tasks[i].pc # "spinning" => tasks'[i] = tasks[i]

\* C18 amended: every tick of plot passes through asyncio.sleep(1) and an
\* iteration of mytask suspends when the wrapped coroutine function does:
\* while every wrapped function suspends no task keeps the thread and the
\* stop-signal handler can run; mytask has no suspension point of its own,
\* and a wrapped function that does not suspend keeps the thread, the
\* other tasks and the handler waiting.
C18_SuspendingActivitiesShareLoop ==
    /\ []((runPc = "running" /\ AllSuspend) =>
            (~ThreadHeld /\ ENABLED SignalHandler))
    /\ [](ThreadHeld => ~ENABLED SignalHandler)
    /\ [][C18_HeldThreadBlocks]_vars

\* A suspending activity is in its iteration and the chart has ticked,
\* the flag still true.
C18_Witness ==
    /\ runPc = "running"
    /\ running = "true"
    /\ AllSuspend
    /\ \E t \in Current : t.shape = "mytask" /\ t.pc = "iter"
    /\ \E t \in Current : t.shape = "plot" /\ t.pc = "sleeping" /\ t.ticks > 0

\* The rows consumed so far followed by the rows the tick reads now are
\* the rows of read_all(name): a tick leaves no row behind and takes no
\* row twice.
C19_ConsumedThenNewIsAll ==
    view.pc = "ticking" =>
        \A k \in Watched(view.varnames) :
            consumed[k] \o logged_data_fromtimestamp(k, view.last_update[k]).rows
                = getitem(k).rows

\* A tick does not move a checkpoint back.
C19_CheckpointMonotone ==
    (view.pc = "ticking" /\ view'.pc = "ticking") =>
        \A k \in Watched(view.varnames) :
            view'.last_update[k] >= view.last_update[k]

\* C19: for every interleaving of appends with renderer ticks the
\* checkpoint of a watched variable never decreases and the rows consumed
\* after a tick are the rows of read_all(name) at that tick, each once: no
\* row is taken twice and none is skipped, a row whose timestamp equals
\* the checkpoint included.
C19_EveryRowConsumedOnce ==
    /\ []C19_ConsumedThenNewIsAll
    /\ [][C19_CheckpointMonotone]_vars

\* C20: after any sequence of appends logged_data() returns a mapping
\* whose keys are exactly the registered names, each mapped to the history
\* read_all(name) (__getitem__) returns for it.
C20_LoggedDataCoversRegistry ==
    /\ ~logged_data.error
    /\ DOMAIN logged_data.result = {log_names[j] : j \in 1..Len(log_names)}
    /\ \A n \in DOMAIN logged_data.result :
          logged_data.result[n] = getitem(n).rows

====
